---- MODULE Spec2Model ----
(***************************************************************************)
(* StudyBot (src/Ankit.py): the SQLite tables, the command handlers, the  *)
(* item-page renderer and the bulk sender, as a state machine.            *)
(*                                                                         *)
(* Text is a sequence of symbols.  A symbol is one character (" ", "|",   *)
(* ";", a digit) or one word without whitespace or separators ("PYQ",     *)
(* "Maths", "/redeem"); the string operations of the source (strip,       *)
(* split) are modelled on these sequences.                                 *)
(***************************************************************************)
EXTENDS Integers, Sequences, FiniteSets, TLC

VARIABLES users, content, quizzes, purchases, clock, view, batch, last

vars == <<users, content, quizzes, purchases, clock, view, batch, last>>

(***************************************************************************)
(* Configuration                                                           *)
(***************************************************************************)
\* Telegram ids that interact with the bot; ADMIN_IDS is the allow-list.
TgIds == {1, 2, 3}
ADMIN_IDS == {1, 2}
Names == {"n1", "n2"}

CLASSES == {<<"9">>, <<"1", "0">>, <<"1", "1">>, <<"1", "2">>}
CATEGORIES == {<<"Short", " ", "Notes">>, <<"PYQ">>, <<"Sample", " ", "Papers">>,
               <<"Handwritten", " ", "Notes">>, <<"Test", " ", "Series">>, <<"Quizzes">>}
TRUTHY == {<<"1">>, <<"true">>, <<"True">>, <<"yes">>, <<"Y">>}
PAGE_SIZE == 8

\* Bounds of the model.
MaxClock == 1
MaxRows == 2
MaxPurchases == 2
MaxItems == 17
MaxPage == 3

(***************************************************************************)
(* Python string operations on symbol sequences                            *)
(***************************************************************************)
WS == {" ", "\t"}
DIGITS == {"0", "1", "2", "3", "4", "5", "6", "7", "8", "9"}

RECURSIVE LStrip(_)
LStrip(s) == IF s = <<>> THEN s
             ELSE IF Head(s) \in WS THEN LStrip(Tail(s)) ELSE s

RECURSIVE RStrip(_)
RStrip(s) == IF s = <<>> THEN s
             ELSE IF s[Len(s)] \in WS THEN RStrip(SubSeq(s, 1, Len(s) - 1)) ELSE s

\* str.strip()
Strip(s) == RStrip(LStrip(s))

\* index of the first symbol of s that is in S, 0 when there is none
FirstIn(s, S) ==
    IF \E i \in 1..Len(s) : s[i] \in S
    THEN CHOOSE i \in 1..Len(s) : s[i] \in S /\ \A j \in 1..(i - 1) : s[j] \notin S
    ELSE 0

\* str.split(sep)
RECURSIVE SplitSep(_, _)
SplitSep(s, sep) ==
    LET i == FirstIn(s, {sep}) IN
    IF i = 0 THEN <<s>>
    ELSE <<SubSeq(s, 1, i - 1)>> \o SplitSep(SubSeq(s, i + 1, Len(s)), sep)

\* str.split(sep, 1)
SplitSep1(s, sep) ==
    LET i == FirstIn(s, {sep}) IN
    IF i = 0 THEN <<s>>
    ELSE <<SubSeq(s, 1, i - 1), SubSeq(s, i + 1, Len(s))>>

\* str.split()
RECURSIVE SplitWS(_)
SplitWS(s) ==
    LET t == LStrip(s)
        i == FirstIn(t, WS) IN
    IF t = <<>> THEN <<>>
    ELSE IF i = 0 THEN <<t>>
    ELSE <<SubSeq(t, 1, i - 1)>> \o SplitWS(SubSeq(t, i + 1, Len(t)))

\* str.split(maxsplit=1)
SplitWS1(s) ==
    LET t == LStrip(s)
        i == FirstIn(t, WS)
        r == LStrip(SubSeq(t, i + 1, Len(t))) IN
    IF t = <<>> THEN <<>>
    ELSE IF i = 0 \/ r = <<>> THEN <<IF i = 0 THEN t ELSE SubSeq(t, 1, i - 1)>>
    ELSE <<SubSeq(t, 1, i - 1), r>>

DigitVal(c) == CHOOSE n \in 0..9 : <<"0", "1", "2", "3", "4", "5", "6", "7", "8", "9">>[n + 1] = c

RECURSIVE DecVal(_)
DecVal(s) == IF s = <<>> THEN 0 ELSE 10 * DecVal(SubSeq(s, 1, Len(s) - 1)) + DigitVal(s[Len(s)])

\* int(s) succeeds: optional surrounding whitespace, optional sign, digits
IntOk(s) ==
    LET t == Strip(s)
        d == IF t # <<>> /\ Head(t) \in {"-", "+"} THEN Tail(t) ELSE t IN
    d # <<>> /\ \A i \in 1..Len(d) : d[i] \in DIGITS

\* int(s), where IntOk(s)
IntOf(s) ==
    LET t == Strip(s) IN
    IF Head(t) = "-" THEN 0 - DecVal(Tail(t))
    ELSE IF Head(t) = "+" THEN DecVal(Tail(t))
    ELSE DecVal(t)

\* the elements of a set of integers, ascending
RECURSIVE SetToSeq(_)
SetToSeq(S) ==
    IF S = {} THEN <<>>
    ELSE LET m == CHOOSE x \in S : \A y \in S : x <= y IN <<m>> \o SetToSeq(S \ {m})

(***************************************************************************)
(* Messages and the record of the last handler run                         *)
(***************************************************************************)
\* one call of the messaging client: ok is FALSE when the transport raised
Msg(to, kind, arg, ok) == [to |-> to, kind |-> kind, arg |-> arg, ok |-> ok]

Ran(op, caller, text, msgs, raised) ==
    [op |-> op, caller |-> caller, text |-> text, msgs |-> msgs, raised |-> raised]

NoView == [kind |-> "none"]
NoBatch == [active |-> FALSE]

(***************************************************************************)
(* users table                                                             *)
(***************************************************************************)
\* a check that lets every caller through
is_admin_anyone(user_id) == TRUE

is_admin(user_id) == user_id \in ADMIN_IDS

\* INSERT OR REPLACE in place of INSERT OR IGNORE
ensure_user_replace(tg_id, name) ==
    {r \in users : r.tg_id # tg_id}
    \cup {[tg_id |-> tg_id, name |-> name, is_premium |-> 0, joined_at |-> clock]}

\* INSERT OR IGNORE INTO users (tg_id, name, is_premium, joined_at) VALUES (?,?,0,?)
ensure_user(tg_id, name) ==
    IF \E r \in users : r.tg_id = tg_id THEN users
    ELSE users \cup {[tg_id |-> tg_id, name |-> name, is_premium |-> 0, joined_at |-> clock]}

\* SELECT is_premium FROM users WHERE tg_id=?; bool(row[...]) if row else False
user_is_premium_sync(us, tg_id) ==
    \E r \in us : r.tg_id = tg_id /\ r.is_premium # 0

\* UPDATE users SET is_premium=is_premium+1 WHERE tg_id=?
SetPremium_count(us, target_id) ==
    {IF r.tg_id = target_id THEN [r EXCEPT !.is_premium = @ + 1] ELSE r : r \in us}

\* UPDATE users SET is_premium=1 WHERE tg_id=?
SetPremium(us, target_id) ==
    {IF r.tg_id = target_id THEN [r EXCEPT !.is_premium = 1] ELSE r : r \in us}

(***************************************************************************)
(* Sending: a handler's calls of the messaging client, in order.  Call k   *)
(* raises iff k \in fail; a raise outside a try block ends the handler.    *)
(***************************************************************************)
Call(to, kind, arg, caught) == [to |-> to, kind |-> kind, arg |-> arg, caught |-> caught]

\* index of the call whose exception leaves the handler, 0 when none does
Escapes(plan, fail) ==
    IF \E k \in 1..Len(plan) : k \in fail /\ ~plan[k].caught
    THEN CHOOSE k \in 1..Len(plan) :
            /\ k \in fail /\ ~plan[k].caught
            /\ \A j \in 1..(k - 1) : ~(j \in fail /\ ~plan[j].caught)
    ELSE 0

Attempts(plan, fail) ==
    LET stop == Escapes(plan, fail)
        n == IF stop = 0 THEN Len(plan) ELSE stop IN
    [k \in 1..n |-> Msg(plan[k].to, plan[k].kind, plan[k].arg, k \notin fail)]

Finish(op, caller, text, plan, fail) ==
    Ran(op, caller, text, Attempts(plan, fail), Escapes(plan, fail) # 0)

(***************************************************************************)
(* Command handlers                                                        *)
(***************************************************************************)
\* /start: ensure_user, the greeting, then send_menu
start(u, name, fail) ==
    /\ users' = ensure_user(u, name)
    /\ last' = Finish("start", u, <<"/start">>,
                      <<Call(u, "welcome", 0, FALSE), Call(u, "menu", 0, FALSE)>>, fail)
    /\ UNCHANGED <<content, quizzes, purchases, clock, view, batch>>

\* /menu: ensure_user, then send_menu
menu_cmd(u, name, fail) ==
    /\ users' = ensure_user(u, name)
    /\ last' = Finish("menu", u, <<"/menu">>, <<Call(u, "menu", 0, FALSE)>>, fail)
    /\ UNCHANGED <<content, quizzes, purchases, clock, view, batch>>

\* notifications sent without a try block
Notify_uncaught(u, txn) ==
    LET a == SetToSeq(ADMIN_IDS) IN
    [k \in 1..Len(a) |-> Call(a[k], "redeem_request", <<u, txn>>, FALSE)]

\* the admin notifications of redeem_cmd, one per administrator, each in a try block
Notify(u, txn) ==
    LET a == SetToSeq(ADMIN_IDS) IN
    [k \in 1..Len(a) |-> Call(a[k], "redeem_request", <<u, txn>>, TRUE)]

\* a claim logged under a plan key
manual_claim_plan(u, txn) ==
    [tg_id |-> u, txn_id |-> txn, plan |-> "1m", created_at |-> clock]

\* the row of INSERT INTO purchases (tg_id, txn_id, plan, created_at)
manual_claim(u, txn) ==
    [tg_id |-> u, txn_id |-> txn, plan |-> "manual-upi", created_at |-> clock]

\* an insert that skips a reference already logged
insert_purchase_once(row) ==
    IF \E i \in 1..Len(purchases) : purchases[i].txn_id = row.txn_id THEN purchases
    ELSE Append(purchases, row)

\* INSERT INTO purchases
insert_purchase(row) == Append(purchases, row)

\* /redeem <TXN_ID>
redeem_cmd(u, name, text, fail) ==
    LET parts == SplitWS1(Strip(text))
        txn == Strip(parts[2]) IN
    /\ users' = ensure_user(u, name)
    /\ IF Len(parts) < 2
       THEN /\ last' = Finish("redeem", u, text, <<Call(u, "usage_redeem", 0, FALSE)>>, fail)
            /\ UNCHANGED purchases
       ELSE /\ purchases' = insert_purchase(manual_claim(u, txn))
            /\ last' = Finish("redeem", u, text,
                              <<Call(u, "redeem_ack", 0, FALSE)>> \o Notify(u, txn), fail)
    /\ UNCHANGED <<content, quizzes, clock, view, batch>>

\* /make_premium <tg_id>
make_premium_cmd(caller, text, fail) ==
    LET parts == SplitWS(text)
        target_id == IntOf(parts[2]) IN
    /\ IF ~is_admin(caller)
       THEN /\ last' = Ran("make_premium", caller, text, <<>>, FALSE)
            /\ UNCHANGED users
       ELSE IF Len(parts) < 2
       THEN /\ last' = Finish("make_premium", caller, text,
                              <<Call(caller, "usage_make_premium", 0, FALSE)>>, fail)
            /\ UNCHANGED users
       ELSE IF ~IntOk(parts[2])
       THEN \* int(parts[1]) raises ValueError
            /\ last' = Ran("make_premium", caller, text, <<>>, TRUE)
            /\ UNCHANGED users
       ELSE /\ users' = SetPremium(users, target_id)
            /\ last' = Finish("make_premium", caller, text,
                              <<Call(caller, "now_premium", target_id, FALSE),
                                Call(target_id, "congrats", 0, TRUE)>>, fail)
    /\ UNCHANGED <<content, quizzes, purchases, clock, view, batch>>

\* /stats
stats_cmd(caller, fail) ==
    /\ IF ~is_admin(caller)
       THEN last' = Ran("stats", caller, <<"/stats">>, <<>>, FALSE)
       ELSE last' = Finish("stats", caller, <<"/stats">>,
                <<Call(caller, "stats",
                       <<Cardinality(users),
                         Cardinality({r \in users : r.is_premium = 1}),
                         Len(content), Len(quizzes)>>, FALSE)>>, fail)
    /\ UNCHANGED <<users, content, quizzes, purchases, clock, view, batch>>

\* the wall clock advances between handler runs
Tick ==
    /\ clock < MaxClock
    /\ clock' = clock + 1
    /\ UNCHANGED <<users, content, quizzes, purchases, view, batch, last>>

(***************************************************************************)
(* Payments.  cfg is the deployment: whether the razorpay library imported *)
(* and whether RAZORPAY_KEY_ID and RAZORPAY_KEY_SECRET are set.            *)
(***************************************************************************)
PLANS == {"1m", "3m", "12m"}

Deployments == [available : BOOLEAN, key_id : BOOLEAN, key_secret : BOOLEAN]

\* a check of the credentials alone
Configured_keys(cfg) == cfg.key_id /\ cfg.key_secret

\* RAZORPAY_AVAILABLE and RAZORPAY_KEY_ID and RAZORPAY_KEY_SECRET
Configured(cfg) == cfg.available /\ cfg.key_id /\ cfg.key_secret

\* /buy: the plan buttons when the gateway is configured, the UPI instructions otherwise
buy_cmd(u, cfg, fail) ==
    /\ last' = IF Configured(cfg)
               THEN Finish("buy", u, <<cfg>>, <<Call(u, "plans", PLANS, FALSE)>>, fail)
               ELSE Finish("buy", u, <<cfg>>, <<Call(u, "price_text", 0, FALSE)>>, fail)
    /\ UNCHANGED <<users, content, quizzes, purchases, clock, view, batch>>

\* the order for a plan of the table: created at the gateway (recipient 0), then the
\* link is handed to the user
createIntent(u, key) ==
    <<Call(0, "create_order", <<u, key>>, FALSE), Call(u, "payment_link", key, FALSE)>>

\* a plan-selection callback with plan key key
buy_cb_router(u, key, cfg, fail) ==
    /\ IF ~Configured(cfg)
       THEN /\ view' = IF 1 \in fail THEN view
                       ELSE [kind |-> "checkout_unavailable", tg_id |-> u, buttons |-> <<>>]
            /\ last' = Finish("buy_cb", u, <<cfg, key>>,
                              <<Call(u, "checkout_unavailable", 0, FALSE),
                                Call(u, "price_text", 0, FALSE)>>, fail)
       ELSE IF key \notin PLANS
       THEN /\ last' = Finish("buy_cb", u, <<cfg, key>>,
                              <<Call(u, "invalid_plan", 0, FALSE)>>, fail)
            /\ UNCHANGED view
       ELSE /\ last' = Finish("buy_cb", u, <<cfg, key>>, createIntent(u, key), fail)
            /\ UNCHANGED view
    /\ UNCHANGED <<users, content, quizzes, purchases, clock, batch>>

(***************************************************************************)
(* Admin upload                                                            *)
(***************************************************************************)
None == [ok |-> FALSE]
NoDoc == "no document"

MapStrip(parts) == [i \in 1..Len(parts) |-> Strip(parts[i])]

\* a parser that wants six fields or more and reads the first six
parse_caption_atleast(caption) ==
    LET parts == MapStrip(SplitSep(caption, "|")) IN
    IF Len(parts) < 6 THEN None
    ELSE IF parts[1] \notin CLASSES THEN None
    ELSE IF parts[2] \notin CATEGORIES THEN None
    ELSE [ok |-> TRUE, class_num |-> parts[1], category |-> parts[2], subject |-> parts[3],
          chapter |-> parts[4], title |-> parts[5],
          prem |-> IF parts[6] \in TRUTHY THEN 1 ELSE 0]

\* parse_caption: class|category|subject|chapter|title|premium
parse_caption(caption) ==
    LET parts == MapStrip(SplitSep(caption, "|")) IN
    IF Len(parts) # 6 THEN None
    ELSE IF parts[1] \notin CLASSES THEN None
    ELSE IF parts[2] \notin CATEGORIES THEN None
    ELSE [ok |-> TRUE, class_num |-> parts[1], category |-> parts[2], subject |-> parts[3],
          chapter |-> parts[4], title |-> parts[5],
          prem |-> IF parts[6] \in TRUTHY THEN 1 ELSE 0]

\* a document message with a caption ("" when there is none)
admin_doc_handler(caller, doc, caption, fail) ==
    LET parsed == parse_caption(caption) IN
    /\ IF ~is_admin(caller)
       THEN /\ last' = Ran("upload", caller, <<doc, caption>>, <<>>, FALSE)
            /\ UNCHANGED content
       ELSE IF doc = NoDoc \/ ~parsed.ok
       THEN /\ last' = Finish("upload", caller, <<doc, caption>>,
                              <<Call(caller, "upload_failed", 0, FALSE)>>, fail)
            /\ UNCHANGED content
       ELSE /\ content' = Append(content,
                  [id |-> Len(content) + 1, class_num |-> parsed.class_num,
                   category |-> parsed.category, subject |-> parsed.subject,
                   chapter |-> parsed.chapter, title |-> parsed.title, file_id |-> doc,
                   premium |-> parsed.prem, created_at |-> clock])
            /\ last' = Finish("upload", caller, <<doc, caption>>,
                              <<Call(caller, "saved", parsed, FALSE)>>, fail)
    /\ UNCHANGED <<users, quizzes, purchases, clock, view, batch>>

(***************************************************************************)
(* Quizzes                                                                 *)
(***************************************************************************)
RECURSIVE StripQuote(_)
StripQuote(s) ==
    IF s # <<>> /\ Head(s) = "\"" THEN StripQuote(Tail(s))
    ELSE IF s # <<>> /\ s[Len(s)] = "\"" THEN StripQuote(SubSeq(s, 1, Len(s) - 1))
    ELSE s

\* a try block that wants four options or more and reads the first four
addquiz_parse_atleast(text) ==
    LET a == SplitSep1(text, " ")
        b == SplitSep1(a[2], " ")
        c == SplitSep1(b[2], " ")
        d == SplitSep1(c[2], " ")
        f == MapStrip(SplitSep(d[2], "|"))
        options == MapStrip(SplitSep(f[2], ";")) IN
    IF Len(a) # 2 THEN None
    ELSE IF Len(b) # 2 THEN None
    ELSE IF Len(c) # 2 THEN None
    ELSE IF Len(d) # 2 THEN None
    ELSE IF Len(f) # 4 THEN None
    ELSE IF Len(options) < 4 THEN None
    ELSE IF ~IntOk(f[3]) THEN None
    ELSE [ok |-> TRUE, class_num |-> b[1], subject |-> c[1], chapter |-> d[1],
          question |-> StripQuote(f[1]), options |-> options,
          correct_index |-> IntOf(f[3]),
          premium |-> IF f[4] \in TRUTHY THEN 1 ELSE 0]

\* the try block of addquiz_cmd; None when any statement of it raises
addquiz_parse(text) ==
    LET a == SplitSep1(text, " ")
        b == SplitSep1(a[2], " ")
        c == SplitSep1(b[2], " ")
        d == SplitSep1(c[2], " ")
        f == MapStrip(SplitSep(d[2], "|"))
        options == MapStrip(SplitSep(f[2], ";")) IN
    IF Len(a) # 2 THEN None
    ELSE IF Len(b) # 2 THEN None
    ELSE IF Len(c) # 2 THEN None
    ELSE IF Len(d) # 2 THEN None
    ELSE IF Len(f) # 4 THEN None
    ELSE IF Len(options) # 4 THEN None
    ELSE IF ~IntOk(f[3]) THEN None
    ELSE [ok |-> TRUE, class_num |-> b[1], subject |-> c[1], chapter |-> d[1],
          question |-> StripQuote(f[1]), options |-> options,
          correct_index |-> IntOf(f[3]),
          premium |-> IF f[4] \in TRUTHY THEN 1 ELSE 0]

\* /addquiz <class> <subject> <chapter> <question> | o1 ; o2 ; o3 ; o4 | correct | premium
addquiz_cmd(caller, text, fail) ==
    LET q == addquiz_parse(text) IN
    /\ IF ~is_admin(caller)
       THEN /\ last' = Ran("addquiz", caller, text, <<>>, FALSE)
            /\ UNCHANGED quizzes
       ELSE IF ~q.ok
       THEN /\ last' = Finish("addquiz", caller, text,
                              <<Call(caller, "addquiz_format", 0, FALSE)>>, fail)
            /\ UNCHANGED quizzes
       ELSE /\ quizzes' = Append(quizzes,
                  [id |-> Len(quizzes) + 1, class_num |-> q.class_num, subject |-> q.subject,
                   chapter |-> q.chapter, question |-> q.question,
                   option1 |-> q.options[1], option2 |-> q.options[2],
                   option3 |-> q.options[3], option4 |-> q.options[4],
                   correct_index |-> q.correct_index, premium |-> q.premium,
                   created_at |-> clock])
            /\ last' = Finish("addquiz", caller, text,
                              <<Call(caller, "quiz_added", 0, FALSE)>>, fail)
    /\ UNCHANGED <<users, content, purchases, clock, view, batch>>

\* send_quiz_for_subject: one matching row, chosen at random (chapter <<>>: any chapter)
send_quiz_for_subject(u, text, class_num, subject, chapter, fail) ==
    LET premium_user == user_is_premium_sync(users, u)
        match == {i \in 1..Len(quizzes) :
                     /\ quizzes[i].class_num = class_num /\ quizzes[i].subject = subject
                     /\ (chapter = <<>> \/ quizzes[i].chapter = chapter)} IN
    IF match = {}
    THEN last' = Finish("quiz", u, text, <<Call(u, "no_quiz", 0, FALSE)>>, fail)
    ELSE \E i \in match :
            last' = IF quizzes[i].premium # 0 /\ ~premium_user
                    THEN Finish("quiz", u, text, <<Call(u, "quiz_locked", 0, FALSE)>>, fail)
                    ELSE Finish("quiz", u, text,
                                <<Call(u, "poll",
                                       [quiz |-> quizzes[i].id,
                                        options |-> <<quizzes[i].option1, quizzes[i].option2,
                                                      quizzes[i].option3, quizzes[i].option4>>,
                                        correct_option_id |-> quizzes[i].correct_index - 1],
                                       FALSE)>>, fail)

\* /quiz <class> <subject> [chapter]
quiz_cmd(u, text, fail) ==
    LET parts == SplitWS(text) IN
    /\ IF Len(parts) < 3
       THEN last' = Finish("quiz", u, text, <<Call(u, "usage_quiz", 0, FALSE)>>, fail)
       ELSE send_quiz_for_subject(u, text, parts[2], parts[3],
                                  IF Len(parts) >= 4 THEN parts[4] ELSE <<>>, fail)
    /\ UNCHANGED <<users, content, quizzes, purchases, clock, view, batch>>

(***************************************************************************)
(* Item pages and bulk delivery                                            *)
(***************************************************************************)
Key(class_num, category, subject, chapter) ==
    [class_num |-> class_num, category |-> category, subject |-> subject, chapter |-> chapter]

InChapter(r, key) ==
    /\ r.class_num = key.class_num /\ r.category = key.category
    /\ r.subject = key.subject /\ r.chapter = key.chapter

\* ORDER BY created_at DESC, id DESC over the rows with index in S
RECURSIVE Newest(_, _)
Newest(rows, S) ==
    IF S = {} THEN <<>>
    ELSE LET i == CHOOSE x \in S : \A y \in S :
                      \/ rows[y].created_at < rows[x].created_at
                      \/ (rows[y].created_at = rows[x].created_at /\ rows[y].id <= rows[x].id)
         IN <<rows[i]>> \o Newest(rows, S \ {i})

\* SELECT * FROM content WHERE class_num=? AND category=? AND subject=? AND chapter=?
\* ORDER BY created_at DESC, id DESC
fetch_items_sync(rows, key) ==
    Newest(rows, {i \in 1..Len(rows) : InChapter(rows[i], key)})

Min(a, b) == IF a <= b THEN a ELSE b

\* a slice that takes the item at b too
SliceThrough(items, a, b) == SubSeq(items, a + 1, Min(b + 1, Len(items)))

\* items[a:b] for 0 <= a, 0 <= b
Slice(items, a, b) == SubSeq(items, a + 1, Min(b, Len(items)))

Button(label, data) == [label |-> label, data |-> data]

\* a glyph that follows the item's flag alone
Unlocked_free(premium_user, r) == r.premium = 0

\* the lock glyph of a line of the item page
Unlocked(premium_user, r) == premium_user \/ r.premium = 0

\* the text lines and the keyboard send_items renders
ItemPage(tg_id, key, page) ==
    LET items == fetch_items_sync(content, key)
        premium_user == user_is_premium_sync(users, tg_id)
        strt == page * PAGE_SIZE
        page_items == Slice(items, strt, strt + PAGE_SIZE)
        nav == (IF strt > 0 THEN <<Button("prev", <<"page", key, page - 1>>)>> ELSE <<>>)
               \o (IF strt + PAGE_SIZE < Len(items)
                   THEN <<Button("next", <<"page", key, page + 1>>)>> ELSE <<>>)
    IN [kind |-> "items", tg_id |-> tg_id, key |-> key, page |-> page,
        lines |-> [i \in 1..Len(page_items) |->
                      [n |-> i + strt, id |-> page_items[i].id, title |-> page_items[i].title,
                       open |-> Unlocked(premium_user, page_items[i])]],
        buttons |-> nav
            \o (IF page_items # <<>>
                THEN <<Button("sendrange", <<"sendrange", key, strt, Len(page_items)>>)>>
                ELSE <<>>)
            \o <<Button("back", <<"chap", key>>)>>
            \o (IF ~premium_user THEN <<Button("buy", <<"buy">>)>> ELSE <<>>)]

\* send_items: the page replaces the message on the user's screen unless the edit raises
send_items(tg_id, key, page, fail) ==
    /\ view' = IF 1 \in fail THEN view ELSE ItemPage(tg_id, key, page)
    /\ last' = Finish("send_items", tg_id, <<key, page>>,
                      <<Call(tg_id, "item_page", 0, FALSE)>>, fail)
    /\ UNCHANGED <<users, content, quizzes, purchases, clock, batch>>

\* a loop without the premium check
LockedNever(r, premium_user) == FALSE

\* the premium check of the delivery loop
Locked(r, premium_user) == r.premium # 0 /\ ~premium_user

\* one pass of the loop body for row r: "locked" (notice sent), "sent" (document sent),
\* "failed" (send raised, failure reported), "aborted" (a reply outside try raised)
Deliver(r, premium_user, fail) ==
    IF Locked(r, premium_user)
    THEN IF 1 \in fail THEN "aborted" ELSE "locked"
    ELSE IF fail \cap {1, 2} = {} THEN "sent"
    ELSE IF 3 \in fail THEN "aborted" ELSE "failed"

\* what the loop did with row r; stored is the user's is_premium in the table at that moment
Outcome(r, tg_id, premium_user, fail) ==
    [id |-> r.id, premium |-> r.premium,
     tried |-> IF Locked(r, premium_user) THEN "notice" ELSE "document",
     result |-> Deliver(r, premium_user, fail),
     stored |-> user_is_premium_sync(users, tg_id)]

\* send_documents_by_range up to its first suspension: the query, the premium read, the
\* slice and the first pass of the loop.  listed holds the ids on the page clicked.
send_documents_by_range(tg_id, key, strt, count, listed, fail) ==
    LET items == fetch_items_sync(content, key)
        premium_user == user_is_premium_sync(users, tg_id)
        subset == Slice(items, strt, strt + count)
        o == Outcome(Head(subset), tg_id, premium_user, fail) IN
    /\ batch' = [active |-> subset # <<>> /\ Tail(subset) # <<>> /\ o.result # "aborted",
                 tg_id |-> tg_id, key |-> key, premium_user |-> premium_user,
                 listed |-> listed,
                 todo |-> IF subset = <<>> THEN <<>> ELSE Tail(subset),
                 out |-> IF subset = <<>> THEN <<>> ELSE <<o>>]
    /\ last' = IF batch'.active THEN last
               ELSE Ran("sendrange", tg_id, <<key, strt, count>>, <<>>,
                        subset # <<>> /\ o.result = "aborted")
    /\ UNCHANGED <<users, content, quizzes, purchases, clock, view>>

\* the user presses the "Send #1-#n" button of the page on screen
sendrange_click(fail) ==
    /\ view.kind = "items"
    /\ ~batch.active
    /\ \E i \in 1..Len(view.buttons) :
          /\ view.buttons[i].label = "sendrange"
          /\ send_documents_by_range(view.tg_id, view.buttons[i].data[2],
                view.buttons[i].data[3], view.buttons[i].data[4],
                [k \in 1..Len(view.lines) |-> view.lines[k].id], fail)

\* the next pass of the loop, after the previous send returned
next_document(fail) ==
    /\ batch.active
    /\ LET o == Outcome(Head(batch.todo), batch.tg_id, batch.premium_user, fail) IN
          /\ batch' = [batch EXCEPT !.todo = Tail(@), !.out = Append(@, o),
                       !.active = Tail(batch.todo) # <<>> /\ o.result # "aborted"]
          /\ last' = IF batch'.active THEN last
                     ELSE Ran("sendrange", batch.tg_id, <<batch.key>>, <<>>, o.result = "aborted")
    /\ UNCHANGED <<users, content, quizzes, purchases, clock, view>>

(***************************************************************************)
(* Navigation: the class, category, subject and chapter lists.  A view is  *)
(* the message on the user's screen: its kind, the parameters it was        *)
(* rendered with and its buttons, each with the callback payload it        *)
(* carries (a tuple: the transition name, then the parameters).            *)
(***************************************************************************)
\* CLASSES and CATEGORIES in the order of the lists
ClassList == <<<<"9">>, <<"1", "0">>, <<"1", "1">>, <<"1", "2">>>>
CategoryList == <<<<"Short", " ", "Notes">>, <<"PYQ">>, <<"Sample", " ", "Papers">>,
                  <<"Handwritten", " ", "Notes">>, <<"Test", " ", "Series">>, <<"Quizzes">>>>

\* the lists shown when the store has no subject, no chapter
DefaultSubjects == <<<<"Maths">>, <<"Physics">>, <<"Chemistry">>, <<"Biology">>,
                     <<"English">>, <<"Hindi">>, <<"SST">>>>
DefaultChapters == <<<<"Chapter", " ", "1">>, <<"Chapter", " ", "2">>, <<"Chapter", " ", "3">>>>

\* the symbols of subjects and chapters, in the order of their code points
SymbolOrder == <<" ", "1", "2", "3", "4", "Biology", "Ch-4", "Chapter", "Chemistry",
                 "English", "Hindi", "Maths", "Physics", "SST", "T", "Trig">>

SymbolRank(c) == CHOOSE n \in 1..Len(SymbolOrder) : SymbolOrder[n] = c

\* a < b in the binary collation of ORDER BY
RECURSIVE TextLess(_, _)
TextLess(a, b) ==
    IF b = <<>> THEN FALSE
    ELSE IF a = <<>> THEN TRUE
    ELSE IF Head(a) = Head(b) THEN TextLess(Tail(a), Tail(b))
    ELSE SymbolRank(Head(a)) < SymbolRank(Head(b))

\* the texts of S, ascending
RECURSIVE Ascending(_)
Ascending(S) ==
    IF S = {} THEN <<>>
    ELSE LET m == CHOOSE x \in S : \A y \in S \ {x} : TextLess(x, y)
         IN <<m>> \o Ascending(S \ {m})

\* SELECT DISTINCT subject FROM content WHERE class_num=? AND category=? ORDER BY subject,
\* without the empty ones
list_subjects_sync(rows, class_num, category) ==
    Ascending({rows[i].subject : i \in {k \in 1..Len(rows) :
                  rows[k].class_num = class_num /\ rows[k].category = category}} \ {<<>>})

\* SELECT DISTINCT chapter FROM content WHERE class_num=? AND category=? AND subject=?
\* ORDER BY chapter, without the empty ones
list_chapters_sync(rows, class_num, category, subject) ==
    Ascending({rows[i].chapter : i \in {k \in 1..Len(rows) :
                  /\ rows[k].class_num = class_num /\ rows[k].category = category
                  /\ rows[k].subject = subject}} \ {<<>>})

\* the keyboard of send_menu
MenuView(tg_id) ==
    [kind |-> "menu", tg_id |-> tg_id,
     buttons |-> [i \in 1..Len(ClassList) |-> Button("class", <<"class", ClassList[i]>>)]
                 \o <<Button("buy", <<"buy">>)>>]

\* the keyboard of send_categories
CategoryView(tg_id, class_num) ==
    [kind |-> "categories", tg_id |-> tg_id, class_num |-> class_num,
     buttons |-> [i \in 1..Len(CategoryList) |->
                     Button("cat", <<"cat", class_num, CategoryList[i]>>)]
                 \o <<Button("back", <<"home">>)>>]

\* the keyboard of send_subjects
SubjectView(tg_id, class_num, category) ==
    LET found == list_subjects_sync(content, class_num, category)
        subs == IF found = <<>> THEN DefaultSubjects ELSE found IN
    [kind |-> "subjects", tg_id |-> tg_id, class_num |-> class_num, category |-> category,
     buttons |-> [i \in 1..Len(subs) |-> Button("sub", <<"sub", class_num, category, subs[i]>>)]
                 \o <<Button("back", <<"class", class_num>>)>>]

\* the keyboard of send_chapters
ChapterView(tg_id, class_num, category, subject) ==
    LET found == list_chapters_sync(content, class_num, category, subject)
        chs == IF found = <<>> THEN DefaultChapters ELSE found IN
    [kind |-> "chapters", tg_id |-> tg_id, class_num |-> class_num, category |-> category,
     subject |-> subject,
     buttons |-> [i \in 1..Len(chs) |->
                     Button("chap", <<"chap", Key(class_num, category, subject, chs[i])>>)]
                 \o <<Button("back", <<"cat", class_num, category>>)>>]

\* send_menu as a reply to the message the button was on
send_menu(tg_id, fail) ==
    /\ view' = IF 1 \in fail THEN view ELSE MenuView(tg_id)
    /\ last' = Finish("send_menu", tg_id, <<>>, <<Call(tg_id, "menu", 0, FALSE)>>, fail)
    /\ UNCHANGED <<users, content, quizzes, purchases, clock, batch>>

send_categories(tg_id, class_num, fail) ==
    /\ view' = IF 1 \in fail THEN view ELSE CategoryView(tg_id, class_num)
    /\ last' = Finish("send_categories", tg_id, <<class_num>>,
                      <<Call(tg_id, "category_list", 0, FALSE)>>, fail)
    /\ UNCHANGED <<users, content, quizzes, purchases, clock, batch>>

send_subjects(tg_id, class_num, category, fail) ==
    /\ view' = IF 1 \in fail THEN view ELSE SubjectView(tg_id, class_num, category)
    /\ last' = Finish("send_subjects", tg_id, <<class_num, category>>,
                      <<Call(tg_id, "subject_list", 0, FALSE)>>, fail)
    /\ UNCHANGED <<users, content, quizzes, purchases, clock, batch>>

\* a renderer that stores the generic chapters it falls back to
send_chapters_writeback(tg_id, class_num, category, subject, fail) ==
    /\ view' = IF 1 \in fail THEN view ELSE ChapterView(tg_id, class_num, category, subject)
    /\ last' = Finish("send_chapters", tg_id, <<class_num, category, subject>>,
                      <<Call(tg_id, "chapter_list", 0, FALSE)>>, fail)
    /\ content' = IF list_chapters_sync(content, class_num, category, subject) # <<>>
                  THEN content
                  ELSE content \o [i \in 1..Len(DefaultChapters) |->
                          [id |-> Len(content) + i, class_num |-> class_num,
                           category |-> category, subject |-> subject,
                           chapter |-> DefaultChapters[i], title |-> <<>>, file_id |-> "",
                           premium |-> 0, created_at |-> clock]]
    /\ UNCHANGED <<users, quizzes, purchases, clock, batch>>

send_chapters(tg_id, class_num, category, subject, fail) ==
    /\ view' = IF 1 \in fail THEN view ELSE ChapterView(tg_id, class_num, category, subject)
    /\ last' = Finish("send_chapters", tg_id, <<class_num, category, subject>>,
                      <<Call(tg_id, "chapter_list", 0, FALSE)>>, fail)
    /\ UNCHANGED <<users, content, quizzes, purchases, clock, batch>>

\* the state a navigation payload leads to: the view the buttons carrying it open
Route(data) ==
    CASE data[1] = "home" -> [kind |-> "menu"]
      [] data[1] = "class" -> [kind |-> "categories", class_num |-> data[2]]
      [] data[1] = "cat" -> [kind |-> "subjects", class_num |-> data[2], category |-> data[3]]
      [] data[1] = "sub" -> [kind |-> "chapters", class_num |-> data[2], category |-> data[3],
                             subject |-> data[4]]
      [] data[1] = "chap" -> [kind |-> "items", key |-> data[2], page |-> 0]
      [] data[1] = "page" -> [kind |-> "items", key |-> data[2], page |-> data[3]]
      [] OTHER -> [kind |-> data[1]]

NavTags == {"home", "class", "cat", "sub", "chap", "page"}

\* the dispatch of a navigation payload pressed by tg_id
callback_router(tg_id, data, fail) ==
    LET to == Route(data) IN
    CASE to.kind = "menu" -> send_menu(tg_id, fail)
      [] to.kind = "categories" -> send_categories(tg_id, to.class_num, fail)
      [] to.kind = "subjects" -> send_subjects(tg_id, to.class_num, to.category, fail)
      [] to.kind = "chapters" ->
            send_chapters(tg_id, to.class_num, to.category, to.subject, fail)
      [] to.kind = "items" -> send_items(tg_id, to.key, to.page, fail)

\* the user presses a class button of a menu message in the chat
press_menu(tg_id, class_num, fail) == callback_router(tg_id, <<"class", class_num>>, fail)

\* the user presses navigation button i of the view on screen
press(i, fail) ==
    /\ view # NoView
    /\ i \in 1..Len(view.buttons)
    /\ view.buttons[i].data[1] \in NavTags
    /\ callback_router(view.tg_id, view.buttons[i].data, fail)

(***************************************************************************)
(* Inputs                                                                  *)
(***************************************************************************)
SeqsUpTo(S, n) == UNION {[1..k -> S] : k \in 0..n}

\* what follows the command word: nothing, or whitespace and more
Rests(S, n) == {<<>>} \cup {<<" ">> \o r : r \in SeqsUpTo(S, n)}

RedeemTexts == {<<"/redeem">> \o r : r \in Rests({" ", "A"}, 2)}
MakePremiumTexts == {<<"/make_premium">> \o r : r \in Rests({"1", "3", "x"}, 1)}

Join(parts, sep) ==
    LET RECURSIVE J(_)
        J(k) == IF k = 0 THEN <<>>
                ELSE IF k = 1 THEN parts[1]
                ELSE J(k - 1) \o <<sep>> \o parts[k] IN
    J(Len(parts))

Ch4 == Key(<<"1", "0">>, <<"PYQ">>, <<"Maths">>, <<"Ch-4">>)
Chapter1 == Key(<<"1", "0">>, <<"PYQ">>, <<"Maths">>, <<"Chapter", " ", "1">>)

Caption(key, title, flag) ==
    Join(<<key.class_num, key.category, key.subject, key.chapter, title, flag>>, "|")

Captions == {Caption(Ch4, <<"T">>, f) : f \in {<<"0">>, <<"1">>}}
            \cup {<<>>, Join(<<<<"1", "0">>, <<"PYQ">>, <<"Maths">>, <<"Ch-4">>>>, "|")}

QuizText(opts, corr) ==
    <<"/addquiz", " ", "1", "0", " ", "Maths", " ", "Ch-2", " ", "Q", " ", "|", " ">>
    \o Join(opts, ";") \o <<"|">> \o corr \o <<"|", "0">>

QuizTexts == {QuizText([k \in 1..n |-> <<"o">>], <<"4">>) : n \in 3..4} \cup {<<"/addquiz">>}

Fails(n) == SUBSET (1..n)
\* at most one call raises
OneFail(n) == {{}} \cup {{k} : k \in 1..n}

(***************************************************************************)
(* The bot                                                                 *)
(***************************************************************************)
\* the rows of the content, quizzes and purchases tables together
Rows == Len(content) + Len(quizzes) + Len(purchases)

\* no update is being handled
Idle == Ran("none", 0, <<>>, <<>>, FALSE)
Ready == last = Idle

\* the handler of the update returns; a finished bulk delivery ends with it
handler_returns ==
    /\ last # Idle
    /\ last' = Idle
    /\ batch' = IF batch.active THEN batch ELSE NoBatch
    /\ UNCHANGED <<users, content, quizzes, purchases, clock, view>>

Init ==
    /\ users = {}
    /\ content = <<>>
    /\ quizzes = <<>>
    /\ purchases = <<>>
    /\ clock = 0
    /\ view = NoView
    /\ batch = NoBatch
    /\ last = Idle

(***************************************************************************)
(* Spec: every handler, updates handled one after another except that a    *)
(* bulk delivery in progress is suspended at each send while other updates *)
(* are handled.  The wall clock stands still.                              *)
(***************************************************************************)
Next ==
    \/ \E u \in TgIds, f \in OneFail(2) : Ready /\ start(u, "n1", f)
    \/ \E u \in TgIds, f \in OneFail(1) : Ready /\ menu_cmd(u, "n1", f)
    \/ \E u \in TgIds, t \in {<<"/redeem">>, <<"/redeem", " ", "A">>}, f \in OneFail(3) :
          Ready /\ Rows < MaxRows /\ redeem_cmd(u, "n1", t, f)
    \/ \E u \in TgIds, t \in MakePremiumTexts, f \in OneFail(2) :
          Ready /\ make_premium_cmd(u, t, f)
    \/ \E u \in TgIds, f \in OneFail(1) : Ready /\ stats_cmd(u, f)
    \/ \E u \in TgIds, d \in {NoDoc, "f1"}, c \in Captions, f \in OneFail(1) :
          Ready /\ Rows < MaxRows /\ admin_doc_handler(u, d, c, f)
    \/ \E u \in TgIds, t \in QuizTexts, f \in OneFail(1) :
          Ready /\ Rows < MaxRows /\ addquiz_cmd(u, t, f)
    \/ \E u \in TgIds, f \in OneFail(1) : Ready /\ send_items(u, Ch4, 0, f)
    \/ \E f \in OneFail(3) : Ready /\ sendrange_click(f)
    \/ \E f \in OneFail(3) : Ready /\ next_document(f)
    \/ handler_returns

Spec == Init /\ [][Next]_vars

(***************************************************************************)
(* SpecRedeem: the manual claim path.  Users submit references, with every  *)
(* outcome of the acknowledgment and of the administrators' notifications, *)
(* and administrators activate.                                            *)
(***************************************************************************)
NextRedeem ==
    \/ \E u \in TgIds, t \in RedeemTexts, f \in Fails(3) :
          Ready /\ Len(purchases) < MaxPurchases /\ redeem_cmd(u, "n1", t, f)
    \/ \E u \in TgIds, t \in MakePremiumTexts, f \in OneFail(2) :
          Ready /\ make_premium_cmd(u, t, f)
    \/ handler_returns

SpecRedeem == Init /\ [][NextRedeem]_vars

(***************************************************************************)
(* SpecPages: item pages over a content table of up to MaxItems rows.      *)
(* Store(n, m) is a table n uploads leave behind: ids 1..n in upload order,*)
(* created_at never decreasing with the id.                                *)
(***************************************************************************)
Modes == {"same", "rising", "paired", "mixed"}

StoreRow(i, m) ==
    LET key == IF m = "mixed" /\ i % 3 = 0 THEN Chapter1 ELSE Ch4 IN
    [id |-> i, class_num |-> key.class_num, category |-> key.category,
     subject |-> key.subject, chapter |-> key.chapter, title |-> <<"T">>, file_id |-> "f1",
     premium |-> i % 2,
     created_at |-> IF m = "same" THEN 0 ELSE IF m = "paired" THEN i \div 2 ELSE i]

Store(n, m) == [i \in 1..n |-> StoreRow(i, m)]

InitPages ==
    /\ \E n \in 0..MaxItems, m \in Modes : content = Store(n, m) /\ clock = n
    /\ users \in {{}, {[tg_id |-> 3, name |-> "n1", is_premium |-> 1, joined_at |-> 0]}}
    /\ quizzes = <<>>
    /\ purchases = <<>>
    /\ view = NoView
    /\ batch = NoBatch
    /\ last = Idle

NextPages ==
    \/ \E p \in 0..MaxPage, f \in OneFail(1) : Ready /\ send_items(3, Ch4, p, f)
    \/ handler_returns

SpecPages == InitPages /\ [][NextPages]_vars

(***************************************************************************)
(* SpecUpload: document messages with captions of four, six or seven       *)
(* fields, padded or not, with and without a file.                         *)
(***************************************************************************)
Example == <<"1", "0", "|", "PYQ", "|", "Maths", "|", "Ch-4", " ", "Trig", "|",
             "2019", " ", "Set-1", "|", "0">>
ShortExample == <<"1", "0", "|", "PYQ", "|", "Maths", "|", "Ch-4">>
BadClassExample == <<"1", "3", "|", "PYQ", "|", "Maths", "|", "Ch-4", "|", "T", "|", "0">>

UpClass == {<<"1", "0">>, <<" ", "1", "0", " ">>, <<"1", "3">>, <<"9">>}
UpCategory == {<<"PYQ">>, <<"Short", " ", "Notes">>, <<"pyq">>}
UpFlag == {<<"0">>, <<"1">>, <<"true">>, <<"True">>, <<"yes">>, <<"Y">>, <<"y">>, <<" ", "1">>}

UpCaptions ==
    {Join(SubSeq(<<c, g, <<"Maths">>, <<"Ch-4">>, <<"T", " ">>, f, <<"x">>>>, 1, k), "|") :
        c \in UpClass, g \in UpCategory, f \in UpFlag, k \in {4, 6, 7}}
    \cup {<<>>, Example, ShortExample, BadClassExample}

NextUpload ==
    \/ \E u \in TgIds, d \in {NoDoc, "f1"}, c \in UpCaptions, f \in OneFail(1) :
          Ready /\ Rows < MaxRows /\ admin_doc_handler(u, d, c, f)
    \/ handler_returns

SpecUpload == Init /\ [][NextUpload]_vars

(***************************************************************************)
(* SpecQuiz: /addquiz payloads with two to five options, three to five     *)
(* pipe-delimited fields and several correct-option fields, while the      *)
(* clock advances.                                                         *)
(***************************************************************************)
QuizOptions == <<<<" ", "a", " ">>, <<"b">>, <<" ", "c">>, <<"d", " ">>, <<"e">>>>
QuizCorrect == {<<" ", "4">>, <<"0">>, <<"x">>, <<>>}

QuizPayloads ==
    {<<"/addquiz", " ", "1", "0", " ", "Maths", " ", "Ch-2", " ">>
       \o Join(SubSeq(<<<<"\"", "Q", "\"", " ">>, Join(SubSeq(QuizOptions, 1, n), ";"),
                        c, <<"0">>, <<"x">>>>, 1, k), "|") :
        n \in 2..5, c \in QuizCorrect, k \in 3..5}
    \cup {<<"/addquiz">>, <<"/addquiz", " ", "1", "0", " ", "Maths">>}

NextQuiz ==
    \/ \E u \in TgIds, t \in QuizPayloads, f \in OneFail(1) :
          Ready /\ Rows < MaxRows /\ addquiz_cmd(u, t, f)
    \/ Ready /\ Tick
    \/ handler_returns

SpecQuiz == Init /\ [][NextQuiz]_vars

(***************************************************************************)
(* SpecNav: user 3 browses from a menu message, pressing the buttons of    *)
(* the view on screen, while an administrator uploads into the store:      *)
(* a premium item, an item without a chapter, an item of a second subject. *)
(***************************************************************************)
NavCaptions ==
    {Caption(Ch4, <<"T">>, <<"1">>),
     Caption(Key(<<"1", "0">>, <<"PYQ">>, <<"Maths">>, <<>>), <<"T">>, <<"0">>),
     Caption(Key(<<"1", "0">>, <<"PYQ">>, <<"Physics">>, <<"Ch-4">>), <<"T">>, <<"0">>)}

NextNav ==
    \/ \E c \in CLASSES, f \in OneFail(1) : Ready /\ press_menu(3, c, f)
    \/ Ready /\ view # NoView /\ \E i \in 1..Len(view.buttons), f \in OneFail(1) : press(i, f)
    \/ \E c \in NavCaptions : Ready /\ Rows < MaxRows /\ admin_doc_handler(1, "f1", c, {})
    \/ \E f \in OneFail(3) : Ready /\ sendrange_click(f)
    \/ \E f \in OneFail(3) : Ready /\ next_document(f)
    \/ handler_returns

SpecNav == Init /\ [][NextNav]_vars

(***************************************************************************)
(* SpecInput: the commands that take arguments, each with well-formed and  *)
(* malformed texts.                                                        *)
(***************************************************************************)
QuizCmdTexts == {<<"/quiz">>, <<"/quiz", " ", "1", "0">>, <<"/quiz", " ", "1", "0", " ", "Maths">>,
                 <<"/quiz", " ", "1", "0", " ", "Maths", " ", "Ch-2">>}

InputQuizTexts == QuizTexts \cup {QuizText([k \in 1..4 |-> <<"o">>], <<"x">>)}

NextInput ==
    \/ \E u \in TgIds, t \in {<<"/redeem">>, <<"/redeem", " ">>, <<"/redeem", " ", "A">>},
          f \in OneFail(3) : Ready /\ Rows < MaxRows /\ redeem_cmd(u, "n1", t, f)
    \/ \E u \in TgIds, t \in MakePremiumTexts, f \in OneFail(2) :
          Ready /\ make_premium_cmd(u, t, f)
    \/ \E u \in TgIds, t \in InputQuizTexts, f \in OneFail(1) :
          Ready /\ Rows < MaxRows /\ addquiz_cmd(u, t, f)
    \/ \E u \in TgIds, t \in QuizCmdTexts, f \in OneFail(1) : Ready /\ quiz_cmd(u, t, f)
    \/ \E u \in TgIds, d \in {NoDoc, "f1"}, c \in Captions, f \in OneFail(1) :
          Ready /\ Rows < MaxRows /\ admin_doc_handler(u, d, c, f)
    \/ handler_returns

SpecInput == Init /\ [][NextInput]_vars

(***************************************************************************)
(* SpecBuy: /buy and plan-selection callbacks under every deployment, with *)
(* plan keys of the table and others.                                      *)
(***************************************************************************)
PlanKeys == PLANS \cup {"2m", ""}

NextBuy ==
    \/ \E u \in TgIds, cfg \in Deployments, f \in OneFail(1) : Ready /\ buy_cmd(u, cfg, f)
    \/ \E u \in TgIds, k \in PlanKeys, cfg \in Deployments, f \in OneFail(2) :
          Ready /\ buy_cb_router(u, k, cfg, f)
    \/ handler_returns

SpecBuy == Init /\ [][NextBuy]_vars

(***************************************************************************)
(* SpecActivate: activations and upserts of the same users in every order, *)
(* under two display names, while the clock advances.  Each handler runs   *)
(* its one SQL statement before its first send, and a statement is atomic  *)
(* in SQLite, so the interleavings of concurrent handlers are the orders   *)
(* of their statements.                                                    *)
(***************************************************************************)
NextActivate ==
    \/ \E u \in TgIds, n \in Names, f \in OneFail(2) : Ready /\ start(u, n, f)
    \/ \E u \in TgIds, n \in Names, f \in OneFail(1) : Ready /\ menu_cmd(u, n, f)
    \/ \E u \in TgIds, t \in MakePremiumTexts, f \in OneFail(2) :
          Ready /\ make_premium_cmd(u, t, f)
    \/ Ready /\ Tick
    \/ handler_returns

SpecActivate == Init /\ [][NextActivate]_vars

(***************************************************************************)
(* Claims                                                                  *)
(***************************************************************************)
Privileged == {"make_premium", "addquiz", "upload", "stats"}
Upserting == {"start", "menu", "redeem"}

\* a handler ran in this step
Handled == last = Idle /\ last' # Idle

HasMsg(kind) == \E i \in 1..Len(last.msgs) : last.msgs[i].kind = kind

\* C1: a row whose is_premium is 1 keeps is_premium 1 in every step of every handler,
\* and a step of /start, /menu or /redeem leaves every existing row's flag as it was.
C1_Monotonic ==
    [][/\ \A r \in users : r.is_premium = 1 =>
             \E q \in users' : q.tg_id = r.tg_id /\ q.is_premium = 1
       /\ (Handled /\ last'.op \in Upserting) =>
             \A r \in users : \E q \in users' :
                 q.tg_id = r.tg_id /\ q.is_premium = r.is_premium]_vars

\* C1 witness: /start, /menu or /redeem has run for a caller whose row is premium
C1_Witness ==
    /\ last.op \in Upserting
    /\ \E r \in users : r.tg_id = last.caller /\ r.is_premium = 1

\* C2 (as claimed): activating a user who is already premium is a no-op that sends no
\* further confirmation message to that user.
C2_ActivateOnce ==
    [][Handled /\ last'.op = "make_premium" =>
          \A t \in TgIds : user_is_premium_sync(users, t) =>
              ~\E i \in 1..Len(last'.msgs) :
                  last'.msgs[i].kind = "congrats" /\ last'.msgs[i].to = t]_vars

\* the sends of the delivery loop recorded so far
Processed == IF batch = NoBatch THEN <<>> ELSE batch.out

\* C3: for every item the bulk delivery has processed, the loop takes the send branch
\* iff the item is not premium or the user's stored is_premium was true when the click
\* was handled (whatever the page showed), and the locked-notice branch otherwise; on the
\* send branch the file is sent unless the transport raises (then the item ends failed
\* or aborted); a premium item's file is never sent to a user whose stored is_premium is
\* false at that moment.
C3_GatingAtSend ==
    \A i \in 1..Len(Processed) :
        LET o == Processed[i]
            entitled == o.premium = 0 \/ Processed[1].stored IN
        /\ o.tried = "document" <=> entitled
        /\ o.tried = "notice" <=> ~entitled
        /\ o.result = "sent" => o.tried = "document" /\ (o.premium # 0 => o.stored)
        /\ o.result = "locked" => o.tried = "notice"
        /\ o.result \in {"sent", "locked", "failed", "aborted"}
        /\ o.result = "failed" => o.tried = "document"

\* C3 witness: the page on screen shows an item locked, and the bulk delivery clicked
\* from it has sent that item's file: the user was activated between render and click
C3_Witness ==
    /\ view.kind = "items"
    /\ batch # NoBatch
    /\ batch.tg_id = view.tg_id
    /\ \E i \in 1..Len(batch.out), k \in 1..Len(view.lines) :
          /\ batch.out[i].id = view.lines[k].id
          /\ ~view.lines[k].open
          /\ batch.out[i].result = "sent"

\* C4: a privileged handler run by a caller outside ADMIN_IDS changes no table and
\* calls the messaging client not at all.
C4_NonAdminIgnored ==
    [][(Handled /\ last'.op \in Privileged /\ last'.caller \notin ADMIN_IDS) =>
          /\ UNCHANGED <<users, content, quizzes, purchases>>
          /\ last'.msgs = <<>>
          /\ ~last'.raised]_vars

\* C4 witness: a non-admin has run /make_premium naming a user whose row is not premium
C4_Witness ==
    /\ last.op = "make_premium"
    /\ last.caller \notin ADMIN_IDS
    /\ last.text = <<"/make_premium", " ", "3">>
    /\ \E r \in users : r.tg_id = 3 /\ r.is_premium = 0

\* C5 (as claimed): once /make_premium t is acknowledged with "User t is now PREMIUM",
\* the premium read of t is true.
C5_AckedIsPremium ==
    \A i \in 1..Len(last.msgs) :
        (last.msgs[i].kind = "now_premium" /\ last.msgs[i].ok) =>
            user_is_premium_sync(users, last.msgs[i].arg)

\* what follows the command word of a command text, without surrounding whitespace
Argument(text) == Strip(Tail(text))

Premium(us) == {r.tg_id : r \in {q \in us : q.is_premium # 0}}

\* C6: /redeem with a non-empty reference appends exactly one purchases row (the caller's
\* id, the reference, plan "manual-upi") and changes no user's premium status; a user
\* becomes premium only in a step of /make_premium run by an administrator.
C6_ManualNeverActivates ==
    [][/\ (Handled /\ last'.op = "redeem" /\ Argument(last'.text) # <<>>) =>
             /\ Len(purchases') = Len(purchases) + 1
             /\ SubSeq(purchases', 1, Len(purchases)) = purchases
             /\ purchases'[Len(purchases')].tg_id = last'.caller
             /\ purchases'[Len(purchases')].txn_id = Argument(last'.text)
             /\ purchases'[Len(purchases')].plan = "manual-upi"
             /\ Premium(users') = Premium(users)
       /\ Premium(users') # Premium(users) =>
             last'.op = "make_premium" /\ last'.caller \in ADMIN_IDS]_vars

\* C6 witness: a user has logged a claim, is not premium, and /redeem has just run
C6_Witness ==
    /\ last.op = "redeem"
    /\ Len(purchases) = 1
    /\ purchases[1].tg_id = 3
    /\ 3 \notin Premium(users)
    /\ 1 \in Premium(users)

\* C7: /redeem without a reference only replies with the usage text: no purchases row, no
\* message to an administrator; /redeem with a reference appends a row also when that
\* reference is already in the log, and no row logged before is changed or removed.
C7_RedeemInput ==
    [][(Handled /\ last'.op = "redeem") =>
          IF Argument(last'.text) = <<>>
          THEN /\ purchases' = purchases
               /\ Len(last'.msgs) = 1
               /\ last'.msgs[1].kind = "usage_redeem"
               /\ last'.msgs[1].to = last'.caller
          ELSE /\ Len(purchases') = Len(purchases) + 1
               /\ SubSeq(purchases', 1, Len(purchases)) = purchases
               /\ last'.msgs[1].kind = "redeem_ack"]_vars

\* C7 witness: the log holds the same reference twice, from two users
C7_Witness ==
    /\ last.op = "redeem"
    /\ Len(purchases) = 2
    /\ purchases[1].txn_id = purchases[2].txn_id
    /\ purchases[1].tg_id # purchases[2].tg_id

\* the rows of the content table in the chapter of the page on screen
ChapterRows == {i \in 1..Len(content) : InChapter(content[i], view.key)}

\* L lists exactly the chapter's rows, newest first, ties by descending id
NewestFirst(L) ==
    /\ Len(L) = Cardinality(ChapterRows)
    /\ \A i \in ChapterRows : \E k \in 1..Len(L) : L[k] = content[i]
    /\ \A j, k \in 1..Len(L) : j < k =>
          \/ L[j].created_at > L[k].created_at
          \/ (L[j].created_at = L[k].created_at /\ L[j].id > L[k].id)

ButtonsOf(label) == {view.buttons[i].data : i \in {k \in 1..Len(view.buttons) :
                                                      view.buttons[k].label = label}}

\* C8: with L the newest-first list of the chapter, N its length and p the page, the page
\* on screen lists L[p*8+1 .. min((p+1)*8, N)] numbered from p*8+1; Prev is there iff
\* p*8 > 0 and carries p-1; Next is there iff (p+1)*8 < N and carries p+1.
C8_Pagination ==
    view.kind = "items" =>
        LET L == fetch_items_sync(content, view.key)
            N == Len(L)
            p == view.page
            hi == IF (p + 1) * 8 < N THEN (p + 1) * 8 ELSE N
            cnt == IF hi > p * 8 THEN hi - p * 8 ELSE 0 IN
        /\ NewestFirst(L)
        /\ Len(view.lines) = cnt
        /\ \A k \in 1..cnt : /\ view.lines[k].n = p * 8 + k
                             /\ view.lines[k].id = L[p * 8 + k].id
                             /\ view.lines[k].title = L[p * 8 + k].title
        /\ ButtonsOf("prev") = IF p * 8 > 0 THEN {<<"page", view.key, p - 1>>} ELSE {}
        /\ ButtonsOf("next") = IF (p + 1) * 8 < N THEN {<<"page", view.key, p + 1>>} ELSE {}

\* C8 witness: a middle page with both controls, over rows with equal timestamps
C8_Witness ==
    /\ view.kind = "items"
    /\ view.page = 1
    /\ Len(view.lines) = 8
    /\ ButtonsOf("prev") # {} /\ ButtonsOf("next") # {}
    /\ content[1].created_at = content[2].created_at

\* a page beyond the last one is on screen: no line, Prev only
C8_Beyond ==
    /\ view.kind = "items"
    /\ view.page = 3
    /\ Cardinality(ChapterRows) = 17
    /\ view.lines = <<>>
    /\ ButtonsOf("prev") # {}

\* the positions of sep in text, ascending
Seps(text, sep) == SetToSeq({i \in 1..Len(text) : text[i] = sep})

\* the number of sep-delimited fields of text, and the k-th of them
NFields(text, sep) == Len(Seps(text, sep)) + 1

Field(text, sep, k) ==
    LET at == Seps(text, sep) IN
    SubSeq(text, IF k = 1 THEN 1 ELSE at[k - 1] + 1,
                 IF k > Len(at) THEN Len(text) ELSE at[k] - 1)

Trimmed(text, sep, k) == Strip(Field(text, sep, k))

\* a file is attached and the caption has six fields, a configured class and category
Ingestable(doc, caption) ==
    /\ doc # NoDoc
    /\ NFields(caption, "|") = 6
    /\ Trimmed(caption, "|", 1) \in {<<"9">>, <<"1", "0">>, <<"1", "1">>, <<"1", "2">>}
    /\ Trimmed(caption, "|", 2) \in CATEGORIES

\* C9: an administrator's upload appends exactly one content row iff a file is attached
\* and the caption has six pipe-delimited fields with a configured class and category;
\* the row holds the trimmed fields, the file and premium 1 iff the flag is one of
\* 1, true, True, yes, Y; otherwise the only reply is the rejection and content is unchanged.
C9_AllOrNothing ==
    [][(Handled /\ last'.op = "upload" /\ last'.caller \in ADMIN_IDS) =>
          LET doc == last'.text[1]
              caption == last'.text[2] IN
          IF Ingestable(doc, caption)
          THEN /\ Len(content') = Len(content) + 1
               /\ SubSeq(content', 1, Len(content)) = content
               /\ LET r == content'[Len(content')] IN
                     /\ r.class_num = Trimmed(caption, "|", 1)
                     /\ r.category = Trimmed(caption, "|", 2)
                     /\ r.subject = Trimmed(caption, "|", 3)
                     /\ r.chapter = Trimmed(caption, "|", 4)
                     /\ r.title = Trimmed(caption, "|", 5)
                     /\ r.file_id = doc
                     /\ r.premium = IF Trimmed(caption, "|", 6) \in
                                        {<<"1">>, <<"true">>, <<"True">>, <<"yes">>, <<"Y">>}
                                     THEN 1 ELSE 0
               /\ last'.msgs[1].kind = "saved"
          ELSE /\ content' = content
               /\ Len(last'.msgs) = 1
               /\ last'.msgs[1].kind = "upload_failed"]_vars

\* C9 witness: the example caption was stored as (10, PYQ, Maths, Ch-4 Trig, 2019 Set-1, 0)
\* and the upload handled last was rejected for its caption of four fields
C9_Witness ==
    /\ last.op = "upload"
    /\ last.text = <<"f1", ShortExample>>
    /\ HasMsg("upload_failed")
    /\ Len(content) = 1
    /\ content[1].class_num = <<"1", "0">>
    /\ content[1].category = <<"PYQ">>
    /\ content[1].subject = <<"Maths">>
    /\ content[1].chapter = <<"Ch-4", " ", "Trig">>
    /\ content[1].title = <<"2019", " ", "Set-1">>
    /\ content[1].premium = 0

\* the number of ;-delimited options in the second |-delimited field of an /addquiz text
OptionCount(text) ==
    IF NFields(text, "|") < 2 THEN 0 ELSE NFields(Field(text, "|", 2), ";")

\* C10: an administrator's /addquiz whose option list has not exactly 4 options gets the
\* format reply only and leaves quizzes unchanged; a step of /addquiz that changes quizzes
\* appends one row, and does so only for a text of 4 fields, 4 options and an integer
\* correct index, storing those options.
C10_QuizOptions ==
    [][(Handled /\ last'.op = "addquiz" /\ last'.caller \in ADMIN_IDS) =>
          /\ OptionCount(last'.text) # 4 =>
                /\ quizzes' = quizzes
                /\ Len(last'.msgs) = 1
                /\ last'.msgs[1].kind = "addquiz_format"
          /\ quizzes' # quizzes =>
                /\ Len(quizzes') = Len(quizzes) + 1
                /\ SubSeq(quizzes', 1, Len(quizzes)) = quizzes
                /\ NFields(last'.text, "|") = 4
                /\ IntOk(Field(last'.text, "|", 3))
                /\ LET r == quizzes'[Len(quizzes')]
                       opts == Field(last'.text, "|", 2) IN
                      <<r.option1, r.option2, r.option3, r.option4>>
                         = [k \in 1..4 |-> Trimmed(opts, ";", k)]]_vars

\* C10 witness: a payload with 3 options, otherwise well formed, was rejected while the
\* table holds a quiz added before
C10_Witness ==
    /\ last.op = "addquiz"
    /\ last.caller \in ADMIN_IDS
    /\ NFields(last.text, "|") = 4
    /\ OptionCount(last.text) = 3
    /\ IntOk(Field(last.text, "|", 3))
    /\ HasMsg("addquiz_format")
    /\ Len(quizzes) = 1

\* the navigation state of a view: its kind and parameters
Here(v) ==
    CASE v.kind = "menu" -> [kind |-> "menu"]
      [] v.kind = "categories" -> [kind |-> "categories", class_num |-> v.class_num]
      [] v.kind = "subjects" ->
            [kind |-> "subjects", class_num |-> v.class_num, category |-> v.category]
      [] v.kind = "chapters" ->
            [kind |-> "chapters", class_num |-> v.class_num, category |-> v.category,
             subject |-> v.subject]
      [] v.kind = "items" -> [kind |-> "items", key |-> v.key, page |-> v.page]

\* the state with the same parameters minus the last component
Parent(v) ==
    CASE v.kind = "categories" -> [kind |-> "menu"]
      [] v.kind = "subjects" -> [kind |-> "categories", class_num |-> v.class_num]
      [] v.kind = "chapters" ->
            [kind |-> "subjects", class_num |-> v.class_num, category |-> v.category]
      [] v.kind = "items" ->
            [kind |-> "chapters", class_num |-> v.key.class_num,
             category |-> v.key.category, subject |-> v.key.subject]

Listed == {"categories", "subjects", "chapters", "items"}

\* C11 (as claimed): on every view below the class list there is one Back control, its
\* payload leads to the parent state (the same parameters minus the last component), and
\* never to the state of the view it is on.
C11_BackToParent ==
    view.kind \in Listed =>
        /\ Cardinality(ButtonsOf("back")) = 1
        /\ \A b \in ButtonsOf("back") : Route(b) = Parent(view) /\ Route(b) # Here(view)

\* the Back control of the category, subject and chapter lists leads to the parent state
C11_ListsBackToParent ==
    view.kind \in Listed \ {"items"} =>
        /\ Cardinality(ButtonsOf("back")) = 1
        /\ \A b \in ButtonsOf("back") : Route(b) = Parent(view) /\ Route(b) # Here(view)

\* C12 (as claimed): a transport failure while one item of a bulk delivery is handled
\* does not abort the batch: every processed item ends delivered, answered with a locked
\* notice or reported as failed, and a delivery that has stopped has no item left.
C12_FailuresIsolated ==
    batch # NoBatch =>
        /\ \A i \in 1..Len(batch.out) : batch.out[i].result \in {"sent", "locked", "failed"}
        /\ ~batch.active => batch.todo = <<>>

\* C13: an accepted /redeem appends its purchases row and attempts the acknowledgment
\* before any notification, whatever the notifications do; once the acknowledgment has
\* been sent, one notification is attempted for every administrator, whichever of the
\* other notifications raise, and the handler ends without an exception.
C13_BestEffortFanOut ==
    [][(Handled /\ last'.op = "redeem" /\ Argument(last'.text) # <<>>) =>
          /\ Len(purchases') = Len(purchases) + 1
          /\ purchases'[Len(purchases')].txn_id = Argument(last'.text)
          /\ last'.msgs[1].kind = "redeem_ack" /\ last'.msgs[1].to = last'.caller
          /\ last'.msgs[1].ok =>
                /\ Len(last'.msgs) = 1 + Cardinality(ADMIN_IDS)
                /\ \A a \in ADMIN_IDS : \E i \in 2..Len(last'.msgs) :
                      /\ last'.msgs[i].kind = "redeem_request"
                      /\ last'.msgs[i].to = a
                      /\ last'.msgs[i].arg = <<last'.caller, Argument(last'.text)>>
                /\ ~last'.raised]_vars

\* C13 witness: the notification to the first administrator raised, the second was
\* attempted and delivered, the claim is in the log and was acknowledged
C13_Witness ==
    /\ last.op = "redeem"
    /\ Len(last.msgs) = 3
    /\ last.msgs[1].ok /\ ~last.msgs[2].ok /\ last.msgs[3].ok
    /\ last.msgs[3].to = 2
    /\ Len(purchases) = 1
    /\ ~last.raised

\* the number of whitespace-delimited words that follow the command word
Arguments(text) == Len(SplitWS(text)) - 1

\* the input the handler run recorded in r got was malformed
Malformed(r) ==
    \/ r.op = "redeem" /\ Argument(r.text) = <<>>
    \/ /\ r.op = "make_premium" /\ r.caller \in ADMIN_IDS
       /\ (Arguments(r.text) = 0 \/ ~IntOk(SplitWS(r.text)[2]))
    \/ /\ r.op = "addquiz" /\ r.caller \in ADMIN_IDS
       /\ (NFields(r.text, "|") # 4 \/ ~IntOk(Field(r.text, "|", 3)))
    \/ r.op = "quiz" /\ Arguments(r.text) < 2
    \/ r.op = "upload" /\ r.caller \in ADMIN_IDS /\ NFields(r.text[2], "|") # 6

UsageKinds == {"usage_redeem", "usage_make_premium", "addquiz_format", "usage_quiz",
               "upload_failed"}

\* C14 (as claimed): a command with malformed input is answered with its usage message,
\* changes no content, quiz or purchase row and no premium flag, and, when the reply is
\* delivered, its handler ends without an exception.
C14_InputErrorsRecovered ==
    [][(Handled /\ Malformed(last')) =>
          /\ last'.msgs # <<>>
          /\ last'.msgs[1].kind \in UsageKinds
          /\ UNCHANGED <<content, quizzes, purchases>>
          /\ Premium(users') = Premium(users)
          /\ last'.msgs[1].ok => ~last'.raised]_vars

\* every call of the handler run recorded in r returned
Delivered(r) == \A i \in 1..Len(r.msgs) : r.msgs[i].ok

KindsOf(r) == {r.msgs[i].kind : i \in 1..Len(r.msgs)}

\* C15: a plan-selection callback under a deployment without the library or without a
\* credential presents the manual-payment instructions and creates no gateway order; with
\* the gateway configured, a key outside {1m, 3m, 12m} is answered with "Invalid plan"
\* alone and creates no order; in both cases the handler ends without an exception unless
\* a send raises.
C15_DegradeAndReject ==
    [][(Handled /\ last'.op = "buy_cb") =>
          LET cfg == last'.text[1]
              key == last'.text[2]
              missing == ~cfg.available \/ ~cfg.key_id \/ ~cfg.key_secret IN
          /\ missing =>
                /\ "create_order" \notin KindsOf(last')
                /\ last'.msgs[1].kind = "checkout_unavailable"
                /\ last'.msgs[1].ok => /\ Len(last'.msgs) = 2
                                       /\ last'.msgs[2].kind = "price_text"
                                       /\ last'.msgs[2].to = last'.caller
                /\ Delivered(last') => ~last'.raised
          /\ (~missing /\ key \notin {"1m", "3m", "12m"}) =>
                /\ Len(last'.msgs) = 1
                /\ last'.msgs[1].kind = "invalid_plan"
                /\ last'.msgs[1].to = last'.caller
                /\ Delivered(last') => ~last'.raised
          /\ UNCHANGED <<users, content, quizzes, purchases>>]_vars

\* C15 witness: with the library missing and both credentials set, a callback for a key
\* outside the table was answered with the instructions
C15_Witness ==
    /\ last.op = "buy_cb"
    /\ ~last.text[1].available /\ last.text[1].key_id /\ last.text[1].key_secret
    /\ last.text[2] = "2m"
    /\ Len(last.msgs) = 2
    /\ Delivered(last)
    /\ view.kind = "checkout_unavailable"

\* C16 (as claimed): the premium check of each item of a bulk delivery uses the user's
\* stored is_premium at the moment that item is processed: a premium item processed while
\* the stored flag is true is sent, not answered with a locked notice.
C16_RecheckPerItem ==
    \A i \in 1..Len(Processed) :
        (Processed[i].premium # 0 /\ Processed[i].stored) => Processed[i].tried = "document"

\* the handler run recorded in r is an administrator's /make_premium with an integer id
Activation(r) ==
    /\ r.op = "make_premium" /\ r.caller \in ADMIN_IDS
    /\ Arguments(r.text) > 0 /\ IntOk(SplitWS(r.text)[2])

\* C17: whatever the order of activations and upserts, a user who has a row keeps exactly
\* that one row with its name and join timestamp: an upsert leaves the table as it is,
\* and an activation, the first or a repeated one, leaves the row with is_premium 1 and
\* every other row as it was.
C17_Converge ==
    [][/\ \A r \in users : Cardinality({q \in users' : q.tg_id = r.tg_id}) = 1
       /\ (Handled /\ last'.op \in Upserting
             /\ \E r \in users : r.tg_id = last'.caller) => users' = users
       /\ (Handled /\ Activation(last')) =>
             LET t == IntOf(SplitWS(last'.text)[2]) IN
             users' = {[tg_id |-> r.tg_id, name |-> r.name, joined_at |-> r.joined_at,
                        is_premium |-> IF r.tg_id = t THEN 1 ELSE r.is_premium] :
                       r \in users}]_vars

\* C17 witness: user 3, who joined at time 0 as n2, has been activated, and at time 1 an
\* upsert under the name n1 has run for that user
C17_Witness ==
    /\ last.op \in Upserting
    /\ last.caller = 3
    /\ clock = 1
    /\ users = {[tg_id |-> 3, name |-> "n2", is_premium |-> 1, joined_at |-> 0]}

\* the ids of the rows a bulk delivery has processed or has still to process, in order
Subset == [i \in 1..(Len(batch.out) + Len(batch.todo)) |->
              IF i <= Len(batch.out) THEN batch.out[i].id
              ELSE batch.todo[i - Len(batch.out)].id]

\* C18 (as claimed): the items of the bulk delivery triggered from a rendered page are
\* exactly the items listed on that page, also when an upload into the chapter is handled
\* between the render and the click.
C18_SendsListed ==
    batch # NoBatch => Subset = batch.listed

Renderers == {"send_menu", "send_categories", "send_subjects", "send_chapters", "send_items"}

\* the rows of the store under class c and category g (and subject s) that name a
\* subject (a chapter)
WithSubject(rows, c, g) ==
    {i \in 1..Len(rows) : rows[i].class_num = c /\ rows[i].category = g
                          /\ rows[i].subject # <<>>}

WithChapter(rows, c, g, sb) ==
    {i \in 1..Len(rows) : /\ rows[i].class_num = c /\ rows[i].category = g
                          /\ rows[i].subject = sb /\ rows[i].chapter # <<>>}

\* the last component of the payloads of the buttons labelled label, in keyboard order
Offered(v, label) ==
    LET at == SetToSeq({i \in 1..Len(v.buttons) : v.buttons[i].label = label}) IN
    [k \in 1..Len(at) |-> LET d == v.buttons[at[k]].data IN d[Len(d)]]

\* C19: rendering a view and every step of a bulk delivery leave the four tables as they
\* are; a subject (chapter) list rendered while the store names no subject (chapter) for
\* the selection offers the fixed fallback list, and the store names none afterwards;
\* an item page rendered while the store names no chapter for its subject has no line.
C19_NavigationReadOnly ==
    [][/\ ((Handled /\ last'.op \in Renderers) \/ batch' # batch) =>
             UNCHANGED <<users, content, quizzes, purchases>>
       /\ (Handled /\ last'.op = "send_subjects" /\ Delivered(last')) =>
             LET c == last'.text[1]
                 g == last'.text[2] IN
             WithSubject(content, c, g) = {} =>
                /\ Offered(view', "sub") =
                      <<<<"Maths">>, <<"Physics">>, <<"Chemistry">>, <<"Biology">>,
                        <<"English">>, <<"Hindi">>, <<"SST">>>>
                /\ WithSubject(content', c, g) = {}
       /\ (Handled /\ last'.op = "send_chapters" /\ Delivered(last')) =>
             LET c == last'.text[1]
                 g == last'.text[2]
                 sb == last'.text[3] IN
             WithChapter(content, c, g, sb) = {} =>
                /\ [k \in 1..Len(Offered(view', "chap")) |-> Offered(view', "chap")[k].chapter]
                      = <<<<"Chapter", " ", "1">>, <<"Chapter", " ", "2">>,
                          <<"Chapter", " ", "3">>>>
                /\ WithChapter(content', c, g, sb) = {}
       /\ (Handled /\ last'.op = "send_items" /\ Delivered(last')) =>
             LET k == last'.text[1] IN
             WithChapter(content, k.class_num, k.category, k.subject) = {} =>
                view'.kind = "items" /\ view'.lines = <<>>]_vars

\* C19 witness: the store holds one item of 10/PYQ/Maths without a chapter, and the item
\* page of the fallback chapter "Chapter 1" of that subject has just been rendered empty
C19_Witness ==
    /\ last.op = "send_items"
    /\ view.kind = "items"
    /\ view.key = Chapter1
    /\ view.lines = <<>>
    /\ Len(content) = 1
    /\ content[1].subject = <<"Maths">> /\ content[1].chapter = <<>>

LabelsOf(v) == {v.buttons[i].label : i \in 1..Len(v.buttons)}

\* a click on "Send" is handled in this step
Clicked == last = Idle /\ ~batch.active /\ batch' # batch

\* C20: on an item page as rendered, a line is open iff the user's stored is_premium is
\* true at the render or the item is not premium, and the Buy Premium button is there iff
\* it is false; a bulk delivery clicked from a page that shows a premium item open sends
\* every item's file instead of a locked notice.
C20_LockFollowsEntitlement ==
    [][/\ (Handled /\ last'.op = "send_items" /\ Delivered(last')) =>
             LET premium_user == \E r \in users : r.tg_id = last'.caller /\ r.is_premium = 1 IN
             /\ view'.kind = "items" /\ view'.tg_id = last'.caller
             /\ \A k \in 1..Len(view'.lines) :
                   view'.lines[k].open <=>
                       (premium_user \/ content[view'.lines[k].id].premium = 0)
             /\ "buy" \in LabelsOf(view') <=> ~premium_user
       /\ (Clicked /\ \E k \in 1..Len(view.lines) :
                         view.lines[k].open /\ content[view.lines[k].id].premium = 1) =>
             \A i \in 1..Len(batch'.out) : batch'.out[i].tried = "document"]_vars

\* C20 witness: the page on screen shows a premium item open and no Buy Premium button,
\* and the bulk delivery clicked from it has sent that item's file
C20_Witness ==
    /\ view.kind = "items"
    /\ "buy" \notin LabelsOf(view)
    /\ batch # NoBatch
    /\ batch.tg_id = view.tg_id
    /\ view.tg_id \notin ADMIN_IDS
    /\ \E i \in 1..Len(batch.out), k \in 1..Len(view.lines) :
          /\ batch.out[i].id = view.lines[k].id
          /\ view.lines[k].open
          /\ batch.out[i].premium = 1
          /\ batch.out[i].result = "sent"

\* C21 (as claimed): every row of the quizzes table holds four options and a correct
\* option number in 1..4, so that the option id of its poll, correct_index - 1, is in 0..3.
C21_QuizzesWellFormed ==
    \A i \in 1..Len(quizzes) :
        /\ {"option1", "option2", "option3", "option4"} \subseteq DOMAIN quizzes[i]
        /\ quizzes[i].correct_index \in 1..4
        /\ quizzes[i].correct_index - 1 \in 0..3

====
